---- MODULE Spec2Model ----
(***************************************************************************)
(* The content caching subsystem of WebX: the size-bounded LRU cache of    *)
(* features/caching/lru_cache.rs and the HTTP response cache layered on    *)
(* it in features/caching/http_cache.rs, and the offline page store of     *)
(* features/caching/offline_storage.rs.                                    *)
(***************************************************************************)
EXTENDS Integers, Sequences, FiniteSets, TLC

(* ---- bounds of the model ---- *)
MaxSize == 2
MaxAccess == 3
MaxTime == 1
MaxStores == 3
MaxPages == 3
MaxDiskSaves == 2

\* the inputs of the calls on the generic cache
Keys == {"a", "b", "c"}
Values == {"v1", "v2"}
Sizes == 1..MaxSize
Capacities == {0, 2, 3}

\* Option<T>
None == [some |-> FALSE]
Some(v) == [some |-> TRUE, val |-> v]

\* a plain value returned by a call
Returned(v) == [returned |-> v]

\* the result of a call that does not return
Diverges == [some |-> FALSE, diverges |-> TRUE]

\* cache, access_order, max_size, current_size: the fields of the LRUCache;
\* default_ttl, compression_enabled: the other fields of the HTTPCache that
\* owns it; now: the wall clock; op, ret: the call made last and its result;
\* stored: the record of the responses handed to store_response so far
\* (their number, their total size, the largest size), kept where a
\* property speaks of the history of the cache
VARIABLES cache, access_order, max_size, current_size,
          default_ttl, compression_enabled, now, op, ret, stored,
          manifests, max_storage_size, files, uuids

vars == <<cache, access_order, max_size, current_size,
          default_ttl, compression_enabled, now, op, ret, stored,
          manifests, max_storage_size, files, uuids>>

config == <<default_ttl, compression_enabled>>

\* the offline store: the manifests in memory, the quota, the files below
\* the storage directory and the number of page ids drawn so far (its
\* current_size is the variable current_size)
offline == <<manifests, max_storage_size, files, uuids>>

NoOfflineStore ==
    /\ manifests = <<>>
    /\ max_storage_size = 0
    /\ files = <<>>
    /\ uuids = 0

NothingStored == [count |-> 0, bytes |-> 0, largest |-> 0]

(* ---- helpers on maps and vectors ---- *)

\* HashMap::remove: the map without key k
MapRemove(m, k) == [x \in (DOMAIN m) \ {k} |-> m[x]]

\* HashMap::insert: the map with k bound to e
MapInsert(m, k, e) == [x \in (DOMAIN m) \cup {k} |-> IF x = k THEN e ELSE m[x]]

\* Vec::retain(|x| x != k)
Retain(ao, k) == SelectSeq(ao, LAMBDA x : x # k)

\* Vec::remove(pos)
RemoveAt(ao, pos) == SubSeq(ao, 1, pos - 1) \o SubSeq(ao, pos + 1, Len(ao))

\* iter().position(|x| x == k): the first index holding k, 0 when there is none
Position(ao, k) ==
    IF \E i \in 1..Len(ao) : ao[i] = k
    THEN CHOOSE i \in 1..Len(ao) : ao[i] = k /\ \A j \in 1..(i - 1) : ao[j] # k
    ELSE 0

\* the LRUCache structure
LRUCache(c, ao, ms, cs) ==
    [cache |-> c, access_order |-> ao, max_size |-> ms, current_size |-> cs]

CacheEntry(v, ts, ac, s) ==
    [value |-> v, timestamp |-> ts, access_count |-> ac, size |-> s]

\* LRUCache::new
LRUCache_new(ms) == LRUCache(<<>>, <<>>, ms, 0)

(* ---- LRUCache::put ---- *)

\* variant of evict: takes the victim from the most-recently-used end
RECURSIVE evict_mru(_, _)
evict_mru(self, size) ==
    IF self.current_size + size > self.max_size /\ self.access_order # <<>>
    THEN LET mru_key == self.access_order[Len(self.access_order)] IN
         IF mru_key \in DOMAIN self.cache
         THEN evict_mru(LRUCache(MapRemove(self.cache, mru_key),
                                 SubSeq(self.access_order, 1, Len(self.access_order) - 1),
                                 self.max_size,
                                 self.current_size - self.cache[mru_key].size),
                        size)
         ELSE [self |-> self, hang |-> TRUE]
    ELSE [self |-> self, hang |-> FALSE]

\* variant of evict: the size of the incoming entry is not counted
RECURSIVE evict_ignores_size(_, _)
evict_ignores_size(self, size) ==
    IF self.current_size > self.max_size /\ self.access_order # <<>>
    THEN LET lru_key == Head(self.access_order) IN
         IF lru_key \in DOMAIN self.cache
         THEN evict_ignores_size(LRUCache(MapRemove(self.cache, lru_key),
                                          Tail(self.access_order),
                                          self.max_size,
                                          self.current_size - self.cache[lru_key].size),
                                 size)
         ELSE [self |-> self, hang |-> TRUE]
    ELSE [self |-> self, hang |-> FALSE]

\* the eviction loop of put; hang marks the loop that makes no progress
\* (head of access_order without an entry in the map)
RECURSIVE evict(_, _)
evict(self, size) ==
    IF self.current_size + size > self.max_size /\ self.access_order # <<>>
    THEN LET lru_key == Head(self.access_order) IN
         IF lru_key \in DOMAIN self.cache
         THEN evict(LRUCache(MapRemove(self.cache, lru_key),
                             Tail(self.access_order),
                             self.max_size,
                             self.current_size - self.cache[lru_key].size),
                    size)
         ELSE [self |-> self, hang |-> TRUE]
    ELSE [self |-> self, hang |-> FALSE]

\* variant of put: the replaced value is dropped instead of returned
LRUCache_put_drops_old(self, key, value, size, ts) ==
    IF key \in DOMAIN self.cache
    THEN [self |-> LRUCache(MapRemove(self.cache, key),
                            Retain(self.access_order, key),
                            self.max_size,
                            self.current_size - self.cache[key].size),
          ret |-> None]
    ELSE LET e == evict(self, size) IN
         IF e.hang
         THEN [self |-> e.self, ret |-> Diverges]
         ELSE [self |-> LRUCache(MapInsert(e.self.cache, key, CacheEntry(value, ts, 1, size)),
                                 Append(e.self.access_order, key),
                                 e.self.max_size,
                                 e.self.current_size + size),
               ret |-> None]

\* variant of put: nothing is evicted for an entry larger than the whole cache
LRUCache_put_oversized_evicts_nothing(self, key, value, size, ts) ==
    IF key \in DOMAIN self.cache
    THEN [self |-> LRUCache(MapRemove(self.cache, key),
                            Retain(self.access_order, key),
                            self.max_size,
                            self.current_size - self.cache[key].size),
          ret |-> Some(self.cache[key].value)]
    ELSE LET e == IF size > self.max_size THEN [self |-> self, hang |-> FALSE]
                  ELSE evict(self, size) IN
         IF e.hang
         THEN [self |-> e.self, ret |-> Diverges]
         ELSE [self |-> LRUCache(MapInsert(e.self.cache, key, CacheEntry(value, ts, 1, size)),
                                 Append(e.self.access_order, key),
                                 e.self.max_size,
                                 e.self.current_size + size),
               ret |-> None]

\* put(key, value, size) called at time ts: the new structure and the result
LRUCache_put(self, key, value, size, ts) ==
    IF key \in DOMAIN self.cache
    THEN [self |-> LRUCache(MapRemove(self.cache, key),
                            Retain(self.access_order, key),
                            self.max_size,
                            self.current_size - self.cache[key].size),
          ret |-> Some(self.cache[key].value)]
    ELSE LET e == evict(self, size) IN
         IF e.hang
         THEN [self |-> e.self, ret |-> Diverges]
         ELSE [self |-> LRUCache(MapInsert(e.self.cache, key, CacheEntry(value, ts, 1, size)),
                                 Append(e.self.access_order, key),
                                 e.self.max_size,
                                 e.self.current_size + size),
               ret |-> None]

(* ---- LRUCache::get ---- *)

\* variant of Promote: pushes the key without removing its old position
Promote_keeps_old(ao, key) == Append(ao, key)

\* variant of Promote: leaves the order as it is
Promote_none(ao, key) == ao

\* the promotion of key to the most-recently-used end
Promote(ao, key) ==
    LET pos == Position(ao, key) IN
    IF pos # 0 THEN Append(RemoveAt(ao, pos), key) ELSE ao

\* variant of get: a hit takes the entry out of the cache
LRUCache_get_takes(self, key, ts) ==
    IF key \in DOMAIN self.cache
    THEN [self |-> LRUCache(MapRemove(self.cache, key),
                            Retain(self.access_order, key),
                            self.max_size,
                            self.current_size - self.cache[key].size),
          ret |-> Some(self.cache[key].value)]
    ELSE [self |-> self, ret |-> None]

\* variant of get: a miss records the key in the recency list
LRUCache_get_miss_touches(self, key, ts) ==
    IF key \in DOMAIN self.cache
    THEN LET entry == self.cache[key] IN
         [self |-> LRUCache([self.cache EXCEPT ![key] =
                                CacheEntry(entry.value, ts, entry.access_count + 1, entry.size)],
                            Promote(self.access_order, key),
                            self.max_size,
                            self.current_size),
          ret |-> Some(entry.value)]
    ELSE [self |-> LRUCache(self.cache, Append(self.access_order, key),
                            self.max_size, self.current_size),
          ret |-> None]

LRUCache_get(self, key, ts) ==
    IF key \in DOMAIN self.cache
    THEN LET entry == self.cache[key] IN
         [self |-> LRUCache([self.cache EXCEPT ![key] =
                                CacheEntry(entry.value, ts, entry.access_count + 1, entry.size)],
                            Promote(self.access_order, key),
                            self.max_size,
                            self.current_size),
          ret |-> Some(entry.value)]
    ELSE [self |-> self, ret |-> None]

\* LRUCache::contains_key
LRUCache_contains_key(self, key) == key \in DOMAIN self.cache

(* ---- LRUCache::remove ---- *)

\* variant of remove: the key stays in the recency list
LRUCache_remove_keeps_order(self, key) ==
    IF key \in DOMAIN self.cache
    THEN [self |-> LRUCache(MapRemove(self.cache, key),
                            self.access_order,
                            self.max_size,
                            self.current_size - self.cache[key].size),
          ret |-> Some(self.cache[key].value)]
    ELSE [self |-> self, ret |-> None]

\* variant of remove: forgets to lower current_size
LRUCache_remove_keeps_size(self, key) ==
    IF key \in DOMAIN self.cache
    THEN [self |-> LRUCache(MapRemove(self.cache, key),
                            Retain(self.access_order, key),
                            self.max_size,
                            self.current_size),
          ret |-> Some(self.cache[key].value)]
    ELSE [self |-> self, ret |-> None]

\* variant of remove: removes the most-recently-used key from the order
LRUCache_remove_wrong_slot(self, key) ==
    IF key \in DOMAIN self.cache
    THEN [self |-> LRUCache(MapRemove(self.cache, key),
                            SubSeq(self.access_order, 1, Len(self.access_order) - 1),
                            self.max_size,
                            self.current_size - self.cache[key].size),
          ret |-> Some(self.cache[key].value)]
    ELSE [self |-> self, ret |-> None]

LRUCache_remove(self, key) ==
    IF key \in DOMAIN self.cache
    THEN [self |-> LRUCache(MapRemove(self.cache, key),
                            Retain(self.access_order, key),
                            self.max_size,
                            self.current_size - self.cache[key].size),
          ret |-> Some(self.cache[key].value)]
    ELSE [self |-> self, ret |-> None]

(* ---- LRUCache::clear ---- *)
LRUCache_clear(self) == LRUCache(<<>>, <<>>, self.max_size, 0)

(* ---- the cache as program state ---- *)

Self == LRUCache(cache, access_order, max_size, current_size)

\* the structure r becomes the state, the call named o returned rv
Becomes(r, o, rv) ==
    /\ cache' = r.cache
    /\ access_order' = r.access_order
    /\ max_size' = r.max_size
    /\ current_size' = r.current_size
    /\ op' = o
    /\ ret' = rv

\* op records the call made last: its name, the path it took through the
\* code and its arguments
Call(name, path, key, value, size) ==
    [name |-> name, path |-> path, key |-> key, value |-> value, size |-> size]

Init ==
    /\ max_size \in Capacities
    /\ cache = <<>>
    /\ access_order = <<>>
    /\ current_size = 0
    /\ now = 0
    /\ default_ttl = 0
    /\ compression_enabled = FALSE
    /\ op = Call("new", "done", "-", None, 0)
    /\ ret = None
    /\ stored = NothingStored
    /\ NoOfflineStore

\* the wall clock advances between calls
Tick ==
    /\ now < MaxTime
    /\ now' = now + 1
    /\ UNCHANGED <<cache, access_order, max_size, current_size, config, op, ret, stored>>
    /\ UNCHANGED offline

put(key, value, size) ==
    LET r == LRUCache_put(Self, key, value, size, now) IN
    /\ Becomes(r.self,
               Call("put",
                    IF key \in DOMAIN cache THEN "replace"
                    ELSE IF DOMAIN cache \subseteq DOMAIN r.self.cache THEN "insert"
                    ELSE "evict",
                    key, value, size),
               r.ret)
    /\ UNCHANGED <<now, config, stored, offline>>

get(key) ==
    /\ key \in DOMAIN cache => cache[key].access_count < MaxAccess
    /\ LET r == LRUCache_get(Self, key, now) IN
       Becomes(r.self,
               Call("get", IF key \in DOMAIN cache THEN "hit" ELSE "miss", key, None, 0),
               r.ret)
    /\ UNCHANGED <<now, config, stored, offline>>

remove(key) ==
    LET r == LRUCache_remove(Self, key) IN
    /\ Becomes(r.self,
               Call("remove", IF key \in DOMAIN cache THEN "hit" ELSE "miss", key, None, 0),
               r.ret)
    /\ UNCHANGED <<now, config, stored, offline>>

clear ==
    /\ Becomes(LRUCache_clear(Self), Call("clear", "done", "-", None, 0), None)
    /\ UNCHANGED <<now, config, stored, offline>>

Next ==
    \/ Tick
    \/ \E key \in Keys, value \in Values, size \in Sizes : put(key, value, size)
    \/ \E key \in Keys : get(key)
    \/ \E key \in Keys : remove(key)
    \/ clear

Spec == Init /\ [][Next]_vars

(* ================= the HTTP response cache ================= *)

MiB == 1024 * 1024

\* bodies longer than this are gzip-compressed when compression is enabled
CompressionThreshold == 1024

\* vec![fill; len]
Bytes(fill, len) == [fill |-> fill, len |-> len]

\* the output of GzEncoder for a body
Gzip(body) == [gzip_of |-> body]

\* Result::Ok(())
Ok == [ok |-> TRUE]

(* ---- strings ---- *)

CharAt(s, i) == SubSeq(s, i, i)

Whitespace == {" ", "\t"}

\* str::starts_with
starts_with(s, prefix) ==
    Len(s) >= Len(prefix) /\ SubSeq(s, 1, Len(prefix)) = prefix

\* str::contains
contains(s, pattern) ==
    \E i \in 1..(Len(s) - Len(pattern) + 1) :
       SubSeq(s, i, i + Len(pattern) - 1) = pattern

\* str::trim
RECURSIVE trim_start(_)
trim_start(s) ==
    IF s # "" /\ CharAt(s, 1) \in Whitespace
    THEN trim_start(SubSeq(s, 2, Len(s)))
    ELSE s

RECURSIVE trim_end(_)
trim_end(s) ==
    IF s # "" /\ CharAt(s, Len(s)) \in Whitespace
    THEN trim_end(SubSeq(s, 1, Len(s) - 1))
    ELSE s

trim(s) == trim_end(trim_start(s))

\* str::split(sep): the pieces between the separators, in order
RECURSIVE split(_, _)
split(s, sep) ==
    IF \E i \in 1..Len(s) : CharAt(s, i) = sep
    THEN LET i == CHOOSE i \in 1..Len(s) :
                     CharAt(s, i) = sep /\ \A j \in 1..(i - 1) : CharAt(s, j) # sep
         IN <<SubSeq(s, 1, i - 1)>> \o split(SubSeq(s, i + 1, Len(s)), sep)
    ELSE <<s>>

DigitValue ==
    [c \in {"0", "1", "2", "3", "4", "5", "6", "7", "8", "9"} |->
        CASE c = "0" -> 0 [] c = "1" -> 1 [] c = "2" -> 2 [] c = "3" -> 3
          [] c = "4" -> 4 [] c = "5" -> 5 [] c = "6" -> 6 [] c = "7" -> 7
          [] c = "8" -> 8 [] c = "9" -> 9]

IsDigits(s) == \A i \in 1..Len(s) : CharAt(s, i) \in DOMAIN DigitValue

RECURSIVE DecimalValue(_)
DecimalValue(s) ==
    IF s = "" THEN 0
    ELSE 10 * DecimalValue(SubSeq(s, 1, Len(s) - 1)) + DigitValue[CharAt(s, Len(s))]

\* a u64: the decimal digits above the ninth place (no leading zeros) and the
\* number made of the last nine
U64(top, low) == [top |-> top, low |-> low]

\* 2^64 = 18446744073 709551616
TwoPow64Top == "18446744073"
TwoPow64Low == 709551616

RECURSIVE StripZeros(_)
StripZeros(digits) ==
    IF Len(digits) > 1 /\ CharAt(digits, 1) = "0"
    THEN StripZeros(SubSeq(digits, 2, Len(digits)))
    ELSE digits

\* a < b for digit strings of the same length
RECURSIVE DigitsLess(_, _)
DigitsLess(a, b) ==
    IF a = "" THEN FALSE
    ELSE IF CharAt(a, 1) # CharAt(b, 1)
         THEN DigitValue[CharAt(a, 1)] < DigitValue[CharAt(b, 1)]
         ELSE DigitsLess(SubSeq(a, 2, Len(a)), SubSeq(b, 2, Len(b)))

\* str::parse::<u64>: an optional plus sign and at least one decimal digit,
\* the number being below 2^64
parse_u64(s) ==
    LET digits == IF s # "" /\ CharAt(s, 1) = "+" THEN SubSeq(s, 2, Len(s)) ELSE s
        d == StripZeros(digits)
        top == IF Len(d) > 9 THEN SubSeq(d, 1, Len(d) - 9) ELSE ""
        low == DecimalValue(IF Len(d) > 9 THEN SubSeq(d, Len(d) - 8, Len(d)) ELSE d)
    IN IF /\ digits # "" /\ IsDigits(digits)
          /\ \/ Len(top) < Len(TwoPow64Top)
             \/ /\ Len(top) = Len(TwoPow64Top)
                /\ \/ DigitsLess(top, TwoPow64Top)
                   \/ top = TwoPow64Top /\ low < TwoPow64Low
       THEN Some(U64(top, low))
       ELSE None

\* `max_age as i64`: the 64 bits read as a signed number, which is the
\* number itself below 2^63 and the number less 2^64 from 2^63 on; the
\* numbers of the model are those of at most nine digits and those of the
\* last 10^9 below 2^64
AsI64(n) ==
    CASE n.top = "" -> n.low
      [] n.top = TwoPow64Top -> n.low - TwoPow64Low

\* DateTime::parse_from_rfc2822 with the time zone taken to UTC, as seconds
\* of the clock: the dates of the model are those of the clock's first ten
\* seconds, every other string is no date
Rfc2822Prefix == "Thu, 01 Jan 1970 00:00:0"
Rfc2822Suffix == " +0000"

parse_from_rfc2822(s) ==
    IF /\ Len(s) = Len(Rfc2822Prefix) + 1 + Len(Rfc2822Suffix)
       /\ starts_with(s, Rfc2822Prefix)
       /\ CharAt(s, Len(Rfc2822Prefix) + 1) \in DOMAIN DigitValue
       /\ SubSeq(s, Len(Rfc2822Prefix) + 2, Len(s)) = Rfc2822Suffix
    THEN Some(DigitValue[CharAt(s, Len(Rfc2822Prefix) + 1)])
    ELSE None

(* ---- headers ---- *)

\* HashMap::get(name).cloned()
HeaderGet(headers, name) ==
    IF name \in DOMAIN headers THEN Some(headers[name]) ELSE None

\* Option<String>::map(len).unwrap_or(0)
OptLen(o) == IF o.some THEN Len(o.val) ELSE 0

\* headers.values().map(|v| v.len()).sum()
RECURSIVE SumValueLens(_)
SumValueLens(headers) ==
    IF DOMAIN headers = {} THEN 0
    ELSE LET h == CHOOSE x \in DOMAIN headers : TRUE IN
         Len(headers[h]) + SumValueLens(MapRemove(headers, h))

(* ---- HTTPCache ---- *)

\* HTTPCache::extract_max_age: the text after max-age= in the first
\* directive that starts with it
RECURSIVE FirstMaxAge(_)
FirstMaxAge(directives) ==
    IF directives = <<>> THEN None
    ELSE LET trimmed == trim(Head(directives)) IN
         IF starts_with(trimmed, "max-age=")
         THEN Some(SubSeq(trimmed, 9, Len(trimmed)))
         ELSE FirstMaxAge(Tail(directives))

extract_max_age(cache_control) == FirstMaxAge(split(cache_control, ","))

\* variant of calculate_expires: without an expires date and a max-age the
\* entry gets no expiry
calculate_expires_no_default(ttl, headers, t) ==
    LET expires_hdr == IF "expires" \in DOMAIN headers
                       THEN parse_from_rfc2822(headers["expires"])
                       ELSE None
        max_age_str == IF "cache-control" \in DOMAIN headers
                       THEN extract_max_age(headers["cache-control"])
                       ELSE None
        max_age == IF max_age_str.some THEN parse_u64(max_age_str.val) ELSE None
    IN IF expires_hdr.some THEN Some(expires_hdr.val)
       ELSE IF max_age.some THEN Some(t + AsI64(max_age.val))
       ELSE None

\* HTTPCache::calculate_expires with default TTL ttl (seconds) at time t
calculate_expires(ttl, headers, t) ==
    LET expires_hdr == IF "expires" \in DOMAIN headers
                       THEN parse_from_rfc2822(headers["expires"])
                       ELSE None
        max_age_str == IF "cache-control" \in DOMAIN headers
                       THEN extract_max_age(headers["cache-control"])
                       ELSE None
        max_age == IF max_age_str.some THEN parse_u64(max_age_str.val) ELSE None
    IN IF expires_hdr.some THEN Some(expires_hdr.val)
       ELSE IF max_age.some THEN Some(t + AsI64(max_age.val))
       ELSE Some(t + ttl)

(* ---- HTTPCache::is_cacheable ---- *)

CacheableStatuses == {200, 203, 204, 206, 300, 301, 404, 405, 410, 414, 501}

\* variant of is_cacheable: the pragma header is not looked at
HTTPCache_is_cacheable_no_pragma(status_code, headers) ==
    IF status_code \notin CacheableStatuses THEN FALSE
    ELSE IF /\ "cache-control" \in DOMAIN headers
            /\ \/ contains(headers["cache-control"], "no-store")
               \/ contains(headers["cache-control"], "no-cache")
         THEN FALSE
    ELSE TRUE

HTTPCache_is_cacheable(status_code, headers) ==
    IF status_code \notin CacheableStatuses THEN FALSE
    ELSE IF /\ "cache-control" \in DOMAIN headers
            /\ \/ contains(headers["cache-control"], "no-store")
               \/ contains(headers["cache-control"], "no-cache")
         THEN FALSE
    ELSE IF "pragma" \in DOMAIN headers /\ contains(headers["pragma"], "no-cache")
         THEN FALSE
    ELSE TRUE

(* ---- HTTPCache::store_response ---- *)

\* variant of calculate_entry_size: the compressed copy, taken to be as long
\* as the body, is counted too
calculate_entry_size_counts_compressed(entry) ==
    Len(entry.url) + entry.body.len + SumValueLens(entry.headers)
      + OptLen(entry.content_type) + OptLen(entry.cache_control) + OptLen(entry.etag)
      + (IF entry.compressed_body.some THEN entry.body.len ELSE 0)

\* HTTPCache::calculate_entry_size
calculate_entry_size(entry) ==
    Len(entry.url) + entry.body.len + SumValueLens(entry.headers)
      + OptLen(entry.content_type) + OptLen(entry.cache_control) + OptLen(entry.etag)

\* variant of HTTPCacheEntry: the compressed copy takes the place of the body
HTTPCacheEntry_serves_compressed(ttl, compress, url, status_code, headers, body, t) ==
    [url |-> url,
     status_code |-> status_code,
     headers |-> headers,
     body |-> IF compress /\ body.len > CompressionThreshold
              THEN [gzip_of |-> body, len |-> body.len] ELSE body,
     compressed_body |-> IF compress /\ body.len > CompressionThreshold
                         THEN Some(Gzip(body)) ELSE None,
     content_type |-> HeaderGet(headers, "content-type"),
     content_length |-> body.len,
     cache_control |-> HeaderGet(headers, "cache-control"),
     expires |-> calculate_expires(ttl, headers, t),
     etag |-> HeaderGet(headers, "etag"),
     last_modified |-> IF "last-modified" \in DOMAIN headers
                       THEN parse_from_rfc2822(headers["last-modified"])
                       ELSE None]

\* the HTTPCacheEntry that store_response builds at time t
HTTPCacheEntry(ttl, compress, url, status_code, headers, body, t) ==
    [url |-> url,
     status_code |-> status_code,
     headers |-> headers,
     body |-> body,
     compressed_body |-> IF compress /\ body.len > CompressionThreshold
                         THEN Some(Gzip(body)) ELSE None,
     content_type |-> HeaderGet(headers, "content-type"),
     content_length |-> body.len,
     cache_control |-> HeaderGet(headers, "cache-control"),
     expires |-> calculate_expires(ttl, headers, t),
     etag |-> HeaderGet(headers, "etag"),
     last_modified |-> IF "last-modified" \in DOMAIN headers
                       THEN parse_from_rfc2822(headers["last-modified"])
                       ELSE None]

\* variant of store_response: a response that is_cacheable turns down is not
\* stored
HTTPCache_store_response_if_cacheable(self, ttl, compress, url, status_code, headers, body, t) ==
    LET entry == HTTPCacheEntry(ttl, compress, url, status_code, headers, body, t) IN
    IF HTTPCache_is_cacheable(status_code, headers)
    THEN [self |-> LRUCache_put(self, url, entry, calculate_entry_size(entry), t).self,
          ret |-> Ok]
    ELSE [self |-> self, ret |-> Ok]

\* HTTPCache::store_response on the underlying cache self
HTTPCache_store_response(self, ttl, compress, url, status_code, headers, body, t) ==
    LET entry == HTTPCacheEntry(ttl, compress, url, status_code, headers, body, t) IN
    [self |-> LRUCache_put(self, url, entry, calculate_entry_size(entry), t).self,
     ret |-> Ok]

\* variant of get_response: an entry counts as expired from its expiry on
HTTPCache_get_response_early(self, url, t) ==
    LET g == LRUCache_get(self, url, t) IN
    IF ~g.ret.some THEN [self |-> g.self, ret |-> None]
    ELSE LET entry == g.ret.val IN
         IF entry.expires.some /\ t >= entry.expires.val
         THEN [self |-> LRUCache_remove(g.self, url).self, ret |-> None]
         ELSE [self |-> g.self, ret |-> Some(entry)]

\* HTTPCache::get_response on the underlying cache self at time t
HTTPCache_get_response(self, url, t) ==
    LET g == LRUCache_get(self, url, t) IN
    IF ~g.ret.some THEN [self |-> g.self, ret |-> None]
    ELSE LET entry == g.ret.val IN
         IF entry.expires.some /\ t > entry.expires.val
         THEN [self |-> LRUCache_remove(g.self, url).self, ret |-> None]
         ELSE [self |-> g.self, ret |-> Some(entry)]

\* HTTPCache::clear_all
HTTPCache_clear_all(self) == LRUCache_clear(self)

\* LRUCache::keys_lru_first and keys_mru_last
Reverse(ao) == [i \in 1..Len(ao) |-> ao[Len(ao) + 1 - i]]
LRUCache_keys_lru_first(self) == self.access_order
LRUCache_keys_mru_last(self) == Reverse(self.access_order)

(* ---- HTTPCache::clear_expired ---- *)

\* variant of SweepExpired: an entry counts as expired from its expiry on
RECURSIVE SweepExpired_early(_, _, _, _)
SweepExpired_early(self, keys_to_check, expired_keys, t) ==
    IF keys_to_check = <<>> THEN [self |-> self, expired_keys |-> expired_keys]
    ELSE LET key == Head(keys_to_check)
             g == LRUCache_get(self, key, t)
         IN IF g.ret.some /\ g.ret.val.expires.some /\ t >= g.ret.val.expires.val
            THEN SweepExpired_early(g.self, Tail(keys_to_check), Append(expired_keys, key), t)
            ELSE SweepExpired_early(g.self, Tail(keys_to_check), expired_keys, t)

\* the first loop of clear_expired: every key is fetched with get, the keys
\* of the entries that have expired at time t are collected
RECURSIVE SweepExpired(_, _, _, _)
SweepExpired(self, keys_to_check, expired_keys, t) ==
    IF keys_to_check = <<>> THEN [self |-> self, expired_keys |-> expired_keys]
    ELSE LET key == Head(keys_to_check)
             g == LRUCache_get(self, key, t)
         IN IF g.ret.some /\ g.ret.val.expires.some /\ t > g.ret.val.expires.val
            THEN SweepExpired(g.self, Tail(keys_to_check), Append(expired_keys, key), t)
            ELSE SweepExpired(g.self, Tail(keys_to_check), expired_keys, t)

\* the second loop of clear_expired
RECURSIVE RemoveKeys(_, _)
RemoveKeys(self, keys) ==
    IF keys = <<>> THEN self
    ELSE RemoveKeys(LRUCache_remove(self, Head(keys)).self, Tail(keys))

\* variant of clear_expired: the keys are swept from the most-recently-used
\* end
HTTPCache_clear_expired_mru_first(self, t) ==
    LET swept == SweepExpired(self, LRUCache_keys_mru_last(self), <<>>, t) IN
    RemoveKeys(swept.self, swept.expired_keys)

HTTPCache_clear_expired(self, t) ==
    LET swept == SweepExpired(self, self.access_order, <<>>, t) IN
    RemoveKeys(swept.self, swept.expired_keys)

(* ---- HTTPCache::stats ---- *)

\* a quotient of two counts (the code computes it in f64)
Ratio(num, den) == [num |-> num, den |-> den]

\* LRUCache::stats: hit_count
RECURSIVE SumAccessCounts(_)
SumAccessCounts(m) ==
    IF DOMAIN m = {} THEN 0
    ELSE LET k == CHOOSE x \in DOMAIN m : TRUE IN
         m[k].access_count + SumAccessCounts(MapRemove(m, k))

LRUCache_stats(self) ==
    [size |-> Cardinality(DOMAIN self.cache),
     current_memory_usage |-> self.current_size,
     max_memory_usage |-> self.max_size,
     hit_count |-> SumAccessCounts(self.cache)]

\* calculate_compression_ratio: the keys are fetched with get one after the
\* other; total_original adds up the body lengths, total_compressed the
\* compressed copies where there are some (counted, their length being that
\* of the gzip stream) and the body lengths elsewhere
RECURSIVE CollectEntries(_, _, _, _)
CollectEntries(self, keys, entries, t) ==
    IF keys = <<>> THEN [self |-> self, entries |-> entries]
    ELSE LET g == LRUCache_get(self, Head(keys), t) IN
         CollectEntries(g.self, Tail(keys),
                        IF g.ret.some THEN Append(entries, g.ret.val) ELSE entries, t)

RECURSIVE TotalOriginal(_)
TotalOriginal(entries) ==
    IF entries = <<>> THEN 0
    ELSE Head(entries).body.len + TotalOriginal(Tail(entries))

RECURSIVE TotalCompressed(_)
TotalCompressed(entries) ==
    IF entries = <<>> THEN [plain |-> 0, gzipped |-> 0]
    ELSE LET rest == TotalCompressed(Tail(entries)) IN
         IF Head(entries).compressed_body.some
         THEN [plain |-> rest.plain, gzipped |-> rest.gzipped + 1]
         ELSE [plain |-> rest.plain + Head(entries).body.len, gzipped |-> rest.gzipped]

calculate_compression_ratio(self, t) ==
    LET c == CollectEntries(self, LRUCache_keys_mru_last(self), <<>>, t)
        total_original == TotalOriginal(c.entries)
    IN [self |-> c.self,
        ret |-> IF total_original = 0 THEN Ratio(1, 1)
                ELSE Ratio(TotalCompressed(c.entries), total_original)]

HTTPCache_stats(self, t) ==
    LET lru_stats == LRUCache_stats(self)
        ratio == calculate_compression_ratio(self, t)
    IN [self |-> ratio.self,
        ret |-> [entries |-> lru_stats.size,
                 memory_usage_mb |-> Ratio(lru_stats.current_memory_usage, MiB),
                 hit_count |-> lru_stats.hit_count,
                 compression_ratio |-> ratio.ret]]

(* ---- the inputs of the calls on the HTTP cache ---- *)

Urls == {"u", "vw"}

Response(status_code, headers, body) ==
    [status_code |-> status_code, headers |-> headers, body |-> body]

Responses ==
    { Response(200, ("content-type" :> "text/html") @@ ("cache-control" :> "max-age=1"),
               Bytes(0, 3)),
      Response(302, ("cache-control" :> "no-store"), Bytes(0, 3)),
      Response(200, ("expires" :> "Thu, 01 Jan 1970 00:00:01 +0000")
                      @@ ("cache-control" :> "max-age=0") @@ ("etag" :> "x"),
               Bytes(0, 2000)),
      Response(200, ("expires" :> "0") @@ ("cache-control" :> "public, max-age=0"),
               Bytes(1, 600000)),
      Response(404, ("cache-control" :> "max-age=x, max-age=1"), Bytes(0, 3)),
      Response(200, ("cache-control" :> "max-age=18446744073709551615"), Bytes(0, 3)) }

\* the responses of the runs that keep the record of what was stored: those
\* with a body above the compression threshold
LargeResponses == {resp \in Responses : resp.body.len > CompressionThreshold}

\* the arguments of the calls of is_cacheable
StatusCodes == CacheableStatuses \cup {199, 302, 500}

HeaderMaps ==
    { <<>>,
      ("cache-control" :> "no-store"),
      ("cache-control" :> "private, no-cache"),
      ("cache-control" :> "max-age=1") @@ ("pragma" :> "no-cache"),
      ("cache-control" :> "public") @@ ("pragma" :> "x") }

\* the arguments of HTTPCache::new
NewArgs(max_size_mb, default_ttl_minutes, compression) ==
    [max_size_mb |-> max_size_mb, default_ttl_minutes |-> default_ttl_minutes,
     compression_enabled |-> compression]

Constructions ==
    { NewArgs(1, 1, TRUE), NewArgs(1, 0, FALSE), NewArgs(0, 0, TRUE) }

(* ---- the HTTP cache as program state ---- *)

\* HTTPCache::new
InitHTTP ==
    \E a \in Constructions :
       /\ max_size = a.max_size_mb * MiB
       /\ cache = <<>>
       /\ access_order = <<>>
       /\ current_size = 0
       /\ default_ttl = a.default_ttl_minutes * 60
       /\ compression_enabled = a.compression_enabled
       /\ now = 0
       /\ op = Call("new", "done", "-", None, 0)
       /\ ret = None
       /\ stored = NothingStored
       /\ NoOfflineStore

\* the effect of store_response on the cache
StoreResponse(url, resp) ==
    LET r == HTTPCache_store_response(Self, default_ttl, compression_enabled, url,
                                      resp.status_code, resp.headers, resp.body, now) IN
    /\ Becomes(r.self, Call("store_response", "done", url, resp, 0), r.ret)
    /\ UNCHANGED <<now, config, offline>>

store_response(url, resp) ==
    /\ StoreResponse(url, resp)
    /\ UNCHANGED stored

\* store_response with the response entered in the record of what was stored
store_response_recorded(url, resp) ==
    /\ stored.count < MaxStores
    /\ StoreResponse(url, resp)
    /\ LET size == calculate_entry_size(
                      HTTPCacheEntry(default_ttl, compression_enabled, url,
                                     resp.status_code, resp.headers, resp.body, now))
       IN stored' = [count |-> stored.count + 1,
                     bytes |-> stored.bytes + size,
                     largest |-> IF size > stored.largest THEN size ELSE stored.largest]

get_response(url) ==
    /\ url \in DOMAIN cache => cache[url].access_count < MaxAccess
    /\ LET r == HTTPCache_get_response(Self, url, now) IN
       Becomes(r.self,
               Call("get_response",
                    IF url \notin DOMAIN cache THEN "miss"
                    ELSE IF url \notin DOMAIN r.self.cache THEN "expired"
                    ELSE "hit",
                    url, None, 0),
               r.ret)
    /\ UNCHANGED <<now, config, stored, offline>>

clear_all ==
    /\ Becomes(HTTPCache_clear_all(Self), Call("clear_all", "done", "-", None, 0), None)
    /\ UNCHANGED <<now, config, stored, offline>>

clear_expired ==
    /\ \A url \in DOMAIN cache : cache[url].access_count < MaxAccess
    /\ LET r == HTTPCache_clear_expired(Self, now) IN
       Becomes(r,
               Call("clear_expired",
                    IF DOMAIN r.cache = DOMAIN cache THEN "kept" ELSE "removed",
                    "-", None, 0),
               None)
    /\ UNCHANGED <<now, config, stored, offline>>

stats ==
    /\ \A url \in DOMAIN cache : cache[url].access_count < MaxAccess
    /\ LET r == HTTPCache_stats(Self, now) IN
       Becomes(r.self, Call("stats", "done", "-", None, 0), Returned(r.ret))
    /\ UNCHANGED <<now, config, stored, offline>>

is_cacheable(status_code, headers) ==
    /\ Becomes(Self,
               Call("is_cacheable", "done", "-",
                    [status_code |-> status_code, headers |-> headers], 0),
               Returned(HTTPCache_is_cacheable(status_code, headers)))
    /\ UNCHANGED <<now, config, stored, offline>>

NextHTTP ==
    \/ Tick
    \/ \E url \in Urls, resp \in Responses : store_response(url, resp)
    \/ \E url \in Urls : get_response(url)
    \/ clear_expired
    \/ stats
    \/ clear_all

SpecHTTP == InitHTTP /\ [][NextHTTP]_vars

\* the HTTP cache with the record of the stored responses
NextHTTPRecorded ==
    \/ Tick
    \/ \E url \in Urls, resp \in LargeResponses : store_response_recorded(url, resp)
    \/ \E url \in Urls : get_response(url)
    \/ clear_expired
    \/ stats

SpecHTTPRecorded == InitHTTP /\ [][NextHTTPRecorded]_vars

\* the calls of is_cacheable on a cache in use
NextCacheable ==
    \/ \E url \in Urls, resp \in Responses : store_response(url, resp)
    \/ \E status_code \in StatusCodes, headers \in HeaderMaps :
          is_cacheable(status_code, headers)

SpecCacheable == InitHTTP /\ [][NextCacheable]_vars

\* the sweeps of a cache of three URLs: a response that lives a second, one
\* that is stored expired, one that lives for the default TTL
SweepUrls == Urls \cup {"x"}

SweepResponses ==
    { resp \in Responses :
         /\ resp.body.len < CompressionThreshold
         /\ "cache-control" \in DOMAIN resp.headers
         /\ resp.status_code \in {200, 302} }

NextSweep ==
    \/ Tick
    \/ \E url \in SweepUrls, resp \in SweepResponses : store_response(url, resp)
    \/ clear_expired

SpecSweep == InitHTTP /\ [][NextSweep]_vars

(* ---- the queries of the generic cache ---- *)

contains_key(key) ==
    /\ Becomes(Self, Call("contains_key", "done", key, None, 0),
               Returned(LRUCache_contains_key(Self, key)))
    /\ UNCHANGED <<now, config, stored, offline>>

cache_stats ==
    /\ Becomes(Self, Call("stats", "done", "-", None, 0), Returned(LRUCache_stats(Self)))
    /\ UNCHANGED <<now, config, stored, offline>>

keys_lru_first ==
    /\ Becomes(Self, Call("keys_lru_first", "done", "-", None, 0),
               Returned(LRUCache_keys_lru_first(Self)))
    /\ UNCHANGED <<now, config, stored, offline>>

keys_mru_last ==
    /\ Becomes(Self, Call("keys_mru_last", "done", "-", None, 0),
               Returned(LRUCache_keys_mru_last(Self)))
    /\ UNCHANGED <<now, config, stored, offline>>

\* the generic cache with its queries
NextQueries ==
    \/ \E key \in Keys, value \in Values, size \in Sizes : put(key, value, size)
    \/ \E key \in Keys : get(key)
    \/ \E key \in Keys : remove(key)
    \/ \E key \in Keys : contains_key(key)
    \/ cache_stats
    \/ keys_lru_first
    \/ keys_mru_last

SpecQueries == Init /\ [][NextQueries]_vars

(* ================= the offline page store ================= *)

\* Result<T, E>
OkOf(v) == [ok |-> TRUE, val |-> v]
Err(e) == [ok |-> FALSE, err |-> e]

\* md5::compute formatted {:x}, of a text and of bytes
Md5(text) == "md5(" \o text \o ")"
calculate_hash(data) == [md5_of |-> data]

\* &hash[..16]
Prefix16(hash) == hash \o "[..16]"

\* uuid::Uuid::new_v4: the n-th id drawn
Uuid(n) == [i \in 1..9 |-> CASE i = 1 -> "uuid-1" [] i = 2 -> "uuid-2" [] i = 3 -> "uuid-3"
                             [] i = 4 -> "uuid-4" [] i = 5 -> "uuid-5" [] i = 6 -> "uuid-6"
                             [] i = 7 -> "uuid-7" [] i = 8 -> "uuid-8" [] i = 9 -> "uuid-9"][n]

\* serde_json::to_string_pretty and from_str: a file holds JSON text, which
\* from_str reads back, or text that is no JSON
to_string_pretty(v) == [json |-> v]
from_str(content) == content.json
IsJson(content) == "json" \in DOMAIN content
NoJson(text) == [text |-> text]

\* the step of save_page at which the file system fails, if any
NoFault == "none"

\* what a write that fails leaves of a file of bytes or of JSON text:
\* File::create has emptied it
Emptied(content) ==
    IF "len" \in DOMAIN content THEN [content EXCEPT !.len = 0] ELSE NoJson("")

\* the per-page allowance of update_storage_size
PageOverhead == 1024 * 10

\* the store: the fields of OfflineStorage and the files below storage_dir
Storage(m, mss, cs, f) ==
    [manifests |-> m, max_storage_size |-> mss, current_size |-> cs, files |-> f]

ResourceInfo(url, content_type, file_path, size, hash) ==
    [url |-> url, content_type |-> content_type, file_path |-> file_path,
     size |-> size, hash |-> hash]

OfflineManifest(url, title, saved_at, resources, main_content_hash) ==
    [url |-> url, title |-> title, saved_at |-> saved_at, resources |-> resources,
     main_content_hash |-> main_content_hash, version |-> 1]

OfflinePage(url, title, html_content, resources, saved_at) ==
    [url |-> url, title |-> title, html_content |-> html_content,
     resources |-> resources, saved_at |-> saved_at]

(* ---- the file system ---- *)

\* PathBuf::join
join(dir, name) == dir \o "/" \o name

\* fs::write
write(f, path, content) == MapInsert(f, path, content)

\* Path::exists of a directory: the model's directories hold a file each
exists(f, dir) == \E path \in DOMAIN f : starts_with(path, join(dir, ""))

\* fs::remove_dir_all
remove_dir_all(f, dir) ==
    [path \in {q \in DOMAIN f : ~starts_with(q, join(dir, ""))} |-> f[path]]

(* ---- OfflineStorage ---- *)

get_extension_from_content_type(ct) ==
    IF starts_with(ct, "image/")
    THEN IF contains(ct, "jpeg") \/ contains(ct, "jpg") THEN "jpg"
         ELSE IF contains(ct, "png") THEN "png"
         ELSE IF contains(ct, "gif") THEN "gif"
         ELSE IF contains(ct, "webp") THEN "webp"
         ELSE "bin"
    ELSE IF starts_with(ct, "text/css") THEN "css"
    ELSE IF starts_with(ct, "application/javascript") THEN "js"
    ELSE IF starts_with(ct, "font/") THEN "woff2"
    ELSE "bin"

generate_filename(url, content_type) ==
    Prefix16(Md5(url)) \o "." \o get_extension_from_content_type(content_type)

get_page_id_from_url(self, url) ==
    IF url \in DOMAIN self.manifests
    THEN OkOf("page_" \o Md5(self.manifests[url].url))
    ELSE Err("Page not found")

RECURSIVE SumResourceSizes(_)
SumResourceSizes(resources) ==
    IF resources = <<>> THEN 0
    ELSE Head(resources).size + SumResourceSizes(Tail(resources))

\* the sum that update_storage_size leaves in current_size
RECURSIVE StorageSize(_)
StorageSize(m) ==
    IF DOMAIN m = {} THEN 0
    ELSE LET url == CHOOSE x \in DOMAIN m : TRUE IN
         SumResourceSizes(m[url].resources) + PageOverhead
           + StorageSize(MapRemove(m, url))

update_storage_size(self) ==
    [self EXCEPT !.current_size = StorageSize(self.manifests)]

\* variant of save_manifest_index: nothing is written
save_manifest_index_skipped(self) == self

save_manifest_index(self) ==
    [self EXCEPT !.files = write(self.files, "manifests.json",
                                 to_string_pretty(self.manifests))]

load_manifests(self) ==
    IF "manifests.json" \in DOMAIN self.files
    THEN LET content == self.files["manifests.json"] IN
         IF IsJson(content)
         THEN [self |-> update_storage_size([self EXCEPT !.manifests = from_str(content)]),
               ret |-> Ok]
         ELSE [self |-> self, ret |-> Err("serde_json::Error")]
    ELSE [self |-> update_storage_size(self), ret |-> Ok]

\* OfflineStorage::new on the directory with the files f
OfflineStorage_new(f, max_size_mb) ==
    LET loaded == load_manifests(Storage(<<>>, max_size_mb * 1024 * 1024, 0, f)) IN
    IF loaded.ret.ok THEN OkOf(loaded.self) ELSE loaded.ret

\* variant of delete_page: the index is written and the size recomputed for
\* a URL without a page as well
OfflineStorage_delete_page_persists_always(self, url) ==
    IF url \in DOMAIN self.manifests
    THEN LET removed == [self EXCEPT !.manifests = MapRemove(self.manifests, url)]
             page_id == get_page_id_from_url(removed, url)
         IN IF ~page_id.ok THEN [self |-> removed, ret |-> page_id]
            ELSE LET page_dir == page_id.val
                     swept == IF exists(removed.files, page_dir)
                              THEN [removed EXCEPT
                                      !.files = remove_dir_all(removed.files, page_dir)]
                              ELSE removed
                 IN [self |-> update_storage_size(save_manifest_index(swept)),
                     ret |-> OkOf(TRUE)]
    ELSE [self |-> update_storage_size(save_manifest_index(self)), ret |-> OkOf(FALSE)]

\* variant of delete_page: the page directory is looked up before the
\* manifest leaves the index
OfflineStorage_delete_page_lookup_first(self, url) ==
    IF url \in DOMAIN self.manifests
    THEN LET page_id == get_page_id_from_url(self, url)
             removed == [self EXCEPT !.manifests = MapRemove(self.manifests, url)]
             page_dir == page_id.val
             swept == IF exists(removed.files, page_dir)
                      THEN [removed EXCEPT
                              !.files = remove_dir_all(removed.files, page_dir)]
                      ELSE removed
         IN [self |-> update_storage_size(save_manifest_index(swept)),
             ret |-> OkOf(TRUE)]
    ELSE [self |-> self, ret |-> OkOf(FALSE)]

OfflineStorage_delete_page(self, url) ==
    IF url \in DOMAIN self.manifests
    THEN LET removed == [self EXCEPT !.manifests = MapRemove(self.manifests, url)]
             page_id == get_page_id_from_url(removed, url)
         IN IF ~page_id.ok THEN [self |-> removed, ret |-> page_id]
            ELSE LET page_dir == page_id.val
                     swept == IF exists(removed.files, page_dir)
                              THEN [removed EXCEPT
                                      !.files = remove_dir_all(removed.files, page_dir)]
                              ELSE removed
                 IN [self |-> update_storage_size(save_manifest_index(swept)),
                     ret |-> OkOf(TRUE)]
    ELSE [self |-> self, ret |-> OkOf(FALSE)]

\* variant of Oldest: the pages saved last
Newest(m) == {url \in DOMAIN m : \A other \in DOMAIN m : m[other].saved_at <= m[url].saved_at}

\* min_by_key(saved_at) over the map: one of the pages saved first, which of
\* them being up to the iteration order of the HashMap
Oldest(m) == {url \in DOMAIN m : \A other \in DOMAIN m : m[url].saved_at <= m[other].saved_at}

\* enforce_storage_limits: the outcomes of the loop
RECURSIVE enforce_storage_limits(_)
enforce_storage_limits(self) ==
    IF self.current_size > self.max_storage_size /\ DOMAIN self.manifests # {}
    THEN UNION { LET deleted == OfflineStorage_delete_page(self, oldest_url) IN
                 IF deleted.ret.ok
                 THEN enforce_storage_limits(deleted.self)
                 ELSE {[self |-> deleted.self, ret |-> deleted.ret]}
                 : oldest_url \in Oldest(self.manifests) }
    ELSE {[self |-> self, ret |-> Ok]}

\* the loop of save_page over the resources: the files written and the
\* ResourceInfo of each; the write of the resource named by fault fails
RECURSIVE SaveResources(_, _, _, _, _)
SaveResources(f, page_dir, resources, resource_infos, fault) ==
    IF resources = <<>>
    THEN [files |-> f, resource_infos |-> resource_infos, ok |-> TRUE]
    ELSE LET resource == Head(resources)
             filename == generate_filename(resource.url, resource.content_type)
             file_path == join(page_dir, filename)
         IN IF fault = resource.url
            THEN [files |-> write(f, file_path, Emptied(resource.data)),
                  resource_infos |-> resource_infos, ok |-> FALSE]
            ELSE SaveResources(write(f, file_path, resource.data),
                               page_dir, Tail(resources),
                               Append(resource_infos,
                                      ResourceInfo(resource.url, resource.content_type,
                                                   filename, resource.data.len,
                                                   calculate_hash(resource.data))),
                               fault)

\* variant of save_page: the manifest enters the index before the files of
\* the page are written
OfflineStorage_save_page_inserts_first(self, url, title, html_content, resources, t, uuid, fault) ==
    LET page_id == "page_" \o uuid
        page_dir == page_id
        html_path == join(page_dir, "index.html")
        manifest_path == join(page_dir, "manifest.json")
        planned == SaveResources(self.files, page_dir, resources, <<>>, NoFault)
        manifest == OfflineManifest(url, title, t, planned.resource_infos,
                                    calculate_hash(html_content))
        first == [self EXCEPT !.manifests = MapInsert(self.manifests, url, manifest)]
        failed(f) == {[self |-> [first EXCEPT !.files = f], ret |-> Err("io::Error")]}
    IN IF fault = "create_dir_all" THEN failed(self.files)
       ELSE IF fault = "index.html"
            THEN failed(write(self.files, html_path, ""))
       ELSE LET saved == SaveResources(write(self.files, html_path, html_content),
                                       page_dir, resources, <<>>, fault)
            IN IF ~saved.ok THEN failed(saved.files)
               ELSE IF fault = "manifest.json"
                    THEN failed(write(saved.files, manifest_path,
                                      Emptied(to_string_pretty(manifest))))
               ELSE LET inserted ==
                           [first EXCEPT !.files = write(saved.files, manifest_path,
                                                         to_string_pretty(manifest))]
                    IN IF fault = "manifests.json"
                       THEN {[self |-> [inserted EXCEPT
                                          !.files = write(inserted.files, "manifests.json",
                                                          Emptied(to_string_pretty(
                                                                     inserted.manifests)))],
                              ret |-> Err("io::Error")]}
                       ELSE { [self |-> e.self,
                               ret |-> IF e.ret.ok THEN OkOf(page_id) ELSE e.ret]
                              : e \in enforce_storage_limits(
                                         update_storage_size(save_manifest_index(inserted))) }

\* save_page at time t with the fresh id uuid, the file system failing at
\* the step fault (create_dir_all, the write of index.html, of the resource
\* of that URL, of manifest.json or of manifests.json) or not at all: its
\* outcomes
OfflineStorage_save_page(self, url, title, html_content, resources, t, uuid, fault) ==
    LET page_id == "page_" \o uuid
        page_dir == page_id
        html_path == join(page_dir, "index.html")
        manifest_path == join(page_dir, "manifest.json")
        failed(f) == {[self |-> [self EXCEPT !.files = f], ret |-> Err("io::Error")]}
    IN IF fault = "create_dir_all" THEN failed(self.files)
       ELSE IF fault = "index.html"
            THEN failed(write(self.files, html_path, ""))
       ELSE LET saved == SaveResources(write(self.files, html_path, html_content),
                                       page_dir, resources, <<>>, fault)
                manifest == OfflineManifest(url, title, t, saved.resource_infos,
                                            calculate_hash(html_content))
            IN IF ~saved.ok THEN failed(saved.files)
               ELSE IF fault = "manifest.json"
                    THEN failed(write(saved.files, manifest_path,
                                      Emptied(to_string_pretty(manifest))))
               ELSE LET inserted ==
                           [self EXCEPT
                              !.files = write(saved.files, manifest_path,
                                              to_string_pretty(manifest)),
                              !.manifests = MapInsert(self.manifests, url, manifest)]
                    IN IF fault = "manifests.json"
                       THEN {[self |-> [inserted EXCEPT
                                          !.files = write(inserted.files, "manifests.json",
                                                          Emptied(to_string_pretty(
                                                                     inserted.manifests)))],
                              ret |-> Err("io::Error")]}
                       ELSE { [self |-> e.self,
                               ret |-> IF e.ret.ok THEN OkOf(page_id) ELSE e.ret]
                              : e \in enforce_storage_limits(
                                         update_storage_size(save_manifest_index(inserted))) }

\* variant of LoadResources: a resource whose file is missing is left out
RECURSIVE LoadResources_skips_missing(_, _, _, _)
LoadResources_skips_missing(f, page_dir, infos, resources) ==
    IF infos = <<>> THEN OkOf(resources)
    ELSE LET resource == Head(infos)
             file_path == join(page_dir, resource.file_path)
         IN IF file_path \notin DOMAIN f
            THEN LoadResources_skips_missing(f, page_dir, Tail(infos), resources)
            ELSE LoadResources_skips_missing(f, page_dir, Tail(infos),
                                             MapInsert(resources, resource.url,
                                                       <<resource.content_type,
                                                         f[file_path]>>))

\* the loop of load_page over the resources of the manifest
RECURSIVE LoadResources(_, _, _, _)
LoadResources(f, page_dir, infos, resources) ==
    IF infos = <<>> THEN OkOf(resources)
    ELSE LET resource == Head(infos)
             file_path == join(page_dir, resource.file_path)
         IN IF file_path \notin DOMAIN f THEN Err("NotFound")
            ELSE LoadResources(f, page_dir, Tail(infos),
                               MapInsert(resources, resource.url,
                                         <<resource.content_type, f[file_path]>>))

OfflineStorage_load_page(self, url) ==
    IF url \in DOMAIN self.manifests
    THEN LET manifest == self.manifests[url]
             page_dir == get_page_id_from_url(self, url).val
             html_path == join(page_dir, "index.html")
         IN IF html_path \notin DOMAIN self.files THEN Err("NotFound")
            ELSE LET resources == LoadResources(self.files, page_dir,
                                                manifest.resources, <<>>)
                 IN IF ~resources.ok THEN resources
                    ELSE OkOf(Some(OfflinePage(manifest.url, manifest.title,
                                               self.files[html_path], resources.val,
                                               manifest.saved_at)))
    ELSE OkOf(None)

OfflineStorage_is_page_offline(self, url) == url \in DOMAIN self.manifests

OfflineStorage_clear_all(self) ==
    [self EXCEPT !.files = <<>>, !.manifests = <<>>, !.current_size = 0]

(* ---- the inputs of the calls on the offline store ---- *)

PageUrls == {"p1", "p2", "p3"}

Resource(url, content_type, data) ==
    [url |-> url, content_type |-> content_type, data |-> data]

PageInput(title, html_content, resources) ==
    [title |-> title, html_content |-> html_content, resources |-> resources]

\* a page whose two resources make 500 KiB
PageInputs ==
    { PageInput("t", "<p>x</p>", << Resource("img", "image/png", Bytes(0, 500 * 1024 - 3)),
                                    Resource("css", "text/css", Bytes(1, 3)) >>) }

\* max_size_mb of OfflineStorage::new
QuotaMiB == 1

(* ---- the offline store as program state ---- *)

SelfOffline == Storage(manifests, max_storage_size, current_size, files)

\* the store r becomes the state, the call o returned rv
BecomesOffline(r, o, rv) ==
    /\ manifests' = r.manifests
    /\ max_storage_size' = r.max_storage_size
    /\ current_size' = r.current_size
    /\ files' = r.files
    /\ op' = o
    /\ ret' = rv
    /\ UNCHANGED <<cache, access_order, max_size, config, stored>>

\* OfflineStorage::new on an empty directory
InitOffline ==
    LET r == OfflineStorage_new(<<>>, QuotaMiB).val IN
    /\ manifests = r.manifests
    /\ max_storage_size = r.max_storage_size
    /\ current_size = r.current_size
    /\ files = r.files
    /\ uuids = 0
    /\ cache = <<>>
    /\ access_order = <<>>
    /\ max_size = 0
    /\ default_ttl = 0
    /\ compression_enabled = FALSE
    /\ now = 0
    /\ op = Call("new", "done", "-", None, 0)
    /\ ret = OkOf(r)
    /\ stored = NothingStored

\* OfflineStorage::new on the directory as it is, the former store dropped
reopen ==
    LET r == OfflineStorage_new(files, QuotaMiB) IN
    /\ IF r.ok
       THEN BecomesOffline(r.val, Call("new", "done", "-", None, 0), r)
       ELSE BecomesOffline(Storage(<<>>, 0, 0, files),
                           Call("new", "failed", "-", None, 0), r)
    /\ UNCHANGED <<now, uuids>>

\* a store has been constructed: the last OfflineStorage::new did not fail
Opened == ~(op.name = "new" /\ op.path = "failed")

\* save_page with the file system failing at the step fault, or not at all
SavePage(url, page, fault) ==
    /\ Opened
    /\ \E r \in OfflineStorage_save_page(SelfOffline, url, page.title, page.html_content,
                                        page.resources, now, Uuid(uuids + 1), fault) :
          BecomesOffline(r.self,
                         Call("save_page",
                              IF r.ret.ok THEN "done"
                              ELSE IF fault = NoFault THEN "failed" ELSE fault,
                              url, page, 0),
                         r.ret)
    /\ uuids' = uuids + 1
    /\ UNCHANGED now

save_page(url, page) ==
    /\ uuids < MaxPages
    /\ SavePage(url, page, NoFault)

save_page_on_disk(url, page, fault) ==
    /\ uuids < MaxDiskSaves
    /\ SavePage(url, page, fault)

load_page(url) ==
    /\ Opened
    /\ BecomesOffline(SelfOffline,
                      Call("load_page",
                           IF url \in DOMAIN manifests THEN "manifest" ELSE "none",
                           url, None, 0),
                      OfflineStorage_load_page(SelfOffline, url))
    /\ UNCHANGED <<now, uuids>>

delete_page(url) ==
    /\ Opened
    /\ LET r == OfflineStorage_delete_page(SelfOffline, url) IN
       BecomesOffline(r.self,
                      Call("delete_page",
                           IF url \in DOMAIN manifests THEN "manifest" ELSE "none",
                           url, None, 0),
                      r.ret)
    /\ UNCHANGED <<now, uuids>>

clear_all_pages ==
    /\ Opened
    /\ BecomesOffline(OfflineStorage_clear_all(SelfOffline),
                      Call("clear_all", "done", "-", None, 0), Ok)
    /\ UNCHANGED <<now, uuids>>

NextOffline ==
    \/ Tick
    \/ \E url \in PageUrls, page \in PageInputs : save_page(url, page)
    \/ \E url \in PageUrls : load_page(url)
    \/ \E url \in PageUrls : delete_page(url)
    \/ clear_all_pages
    \/ reopen

SpecOffline == InitOffline /\ [][NextOffline]_vars

(* ---- the offline store over a directory with a past and a failing disk ---- *)

\* the steps of save_page at which the file system is made to fail
Faults == {"create_dir_all", "index.html", "css", "manifest.json", "manifests.json"}

\* the page as a store that names directories as load_page does would have
\* left it at time t: the manifest and the files of page_<md5(url)>
StoredPage(url, page, t) ==
    LET page_dir == "page_" \o Md5(url)
        saved == SaveResources(write(<<>>, join(page_dir, "index.html"), page.html_content),
                               page_dir, page.resources, <<>>, NoFault)
        manifest == OfflineManifest(url, page.title, t, saved.resource_infos,
                                    calculate_hash(page.html_content))
    IN [manifest |-> manifest,
        files |-> write(saved.files, join(page_dir, "manifest.json"),
                        to_string_pretty(manifest))]

\* the storage directories the store is constructed over: an empty one, one
\* whose manifests.json is no JSON, and one with the pages p1 and p2, the
\* css file of p2 missing
Directories ==
    LET page == CHOOSE p \in PageInputs : TRUE
        p1 == StoredPage("p1", page, 0)
        p2 == StoredPage("p2", page, 0)
        css == join("page_" \o Md5("p2"), generate_filename("css", "text/css"))
    IN { <<>>,
         write(<<>>, "manifests.json", NoJson("{")),
         write(p1.files @@ MapRemove(p2.files, css), "manifests.json",
               to_string_pretty(("p1" :> p1.manifest) @@ ("p2" :> p2.manifest))) }

\* OfflineStorage::new over one of the directories
InitOfflineDisk ==
    \E f \in Directories :
       LET r == OfflineStorage_new(f, QuotaMiB)
           self == IF r.ok THEN r.val ELSE Storage(<<>>, 0, 0, f)
       IN /\ manifests = self.manifests
          /\ max_storage_size = self.max_storage_size
          /\ current_size = self.current_size
          /\ files = self.files
          /\ uuids = 0
          /\ cache = <<>>
          /\ access_order = <<>>
          /\ max_size = 0
          /\ default_ttl = 0
          /\ compression_enabled = FALSE
          /\ now = 0
          /\ op = Call("new", IF r.ok THEN "done" ELSE "failed", "-", None, 0)
          /\ ret = r
          /\ stored = NothingStored

NextOfflineDisk ==
    \/ \E url \in PageUrls, page \in PageInputs, fault \in Faults \cup {NoFault} :
          save_page_on_disk(url, page, fault)
    \/ \E url \in PageUrls : load_page(url)
    \/ \E url \in PageUrls : delete_page(url)
    \/ reopen

SpecOfflineDisk == InitOfflineDisk /\ [][NextOfflineDisk]_vars

(* ================= properties of the generic cache ================= *)

RECURSIVE SumSizes(_)
SumSizes(m) ==
    IF DOMAIN m = {} THEN 0
    ELSE LET k == CHOOSE x \in DOMAIN m : TRUE IN
         m[k].size + SumSizes(MapRemove(m, k))

\* the sum of the sizes of the first n keys of the order ao
RECURSIVE PrefixSize(_, _, _)
PrefixSize(m, ao, n) ==
    IF n = 0 THEN 0 ELSE m[ao[n]].size + PrefixSize(m, ao, n - 1)

Range(ao) == {ao[i] : i \in 1..Len(ao)}

\* x comes before y in the order ao
Before(ao, x, y) == \E i, j \in 1..Len(ao) : i < j /\ ao[i] = x /\ ao[j] = y

\* the keys of S stand in the same relative order in ao1 and ao2
SameRelativeOrder(ao1, ao2, S) ==
    \A x, y \in S : Before(ao1, x, y) <=> Before(ao2, x, y)

\* the step is a call of the operation name (the clock stands still in a call)
Called(name) == now' = now /\ op'.name = name

\* C1: in every reachable state current_size equals the sum of the size
\* fields of the entries in the cache.
C1_SizeAccounting == current_size = SumSizes(cache)

C1_Witness ==
    /\ op.name = "remove" /\ op.path = "hit"
    /\ Cardinality(DOMAIN cache) >= 2
    /\ \E k \in DOMAIN cache : cache[k].access_count > 1

\* C2: in every reachable state access_order holds exactly the keys of the
\* entry map, each exactly once.
C2_RecencyMatchesMap ==
    /\ Range(access_order) = DOMAIN cache
    /\ Len(access_order) = Cardinality(DOMAIN cache)

C2_Witness ==
    /\ op.name = "get" /\ op.path = "hit"
    /\ Len(access_order) >= 3

\* C3: after every put that returns, current_size <= max_size.
C3_PutWithinCapacity ==
    op.name = "put" => current_size <= max_size

\* C4: after put(k, v, s) returns, whether or not k was cached before, k is
\* in the cache with value v, size s and access_count 1, and k is the last
\* key of access_order.
C4_PutStores ==
    op.name = "put" =>
       /\ op.key \in DOMAIN cache
       /\ cache[op.key].value = op.value
       /\ cache[op.key].size = op.size
       /\ cache[op.key].access_count = 1
       /\ access_order # <<>>
       /\ access_order[Len(access_order)] = op.key

\* C5: put(k, v, s) returns the value stored under k when k was cached and
\* None exactly when it was not; on the replacing path current_size is
\* lowered by the old entry's size.
C5_PutReturnsOld ==
    [][Called("put") =>
          IF op'.key \in DOMAIN cache
          THEN /\ ret' = Some(cache[op'.key].value)
               /\ ret'.some
               /\ current_size' = current_size - cache[op'.key].size
          ELSE ret' = None]_vars

C5_Witness ==
    /\ op.name = "put" /\ op.path = "replace"
    /\ ret.some
    /\ DOMAIN cache # {}

\* C6: a put of an absent key k with size s removes exactly the first n keys
\* of access_order, n being the least number for which the remaining bytes
\* plus s fit in max_size, or all keys when no such number exists; n = 0
\* when the new entry already fits.
Fits(n, s) == current_size - PrefixSize(cache, access_order, n) + s <= max_size

C6_EvictsShortestPrefix ==
    [][(Called("put") /\ op'.key \notin DOMAIN cache) =>
          \E n \in 0..Len(access_order) :
             /\ \/ Fits(n, op'.size) /\ \A m \in 0..(n - 1) : ~Fits(m, op'.size)
                \/ n = Len(access_order) /\ \A m \in 0..n : ~Fits(m, op'.size)
             /\ access_order' =
                   SubSeq(access_order, n + 1, Len(access_order)) \o <<op'.key>>
             /\ DOMAIN cache' =
                   (DOMAIN cache \ {access_order[i] : i \in 1..n}) \cup {op'.key}
             /\ \A x \in DOMAIN cache' \ {op'.key} : cache'[x] = cache[x]
             /\ Fits(0, op'.size) => n = 0]_vars

C6_Witness ==
    /\ op.name = "put" /\ op.path = "evict"
    /\ Len(access_order) >= 2
    /\ current_size <= max_size

\* C7: get(k) on a cached key returns its value, adds one to its
\* access_count and moves k to the end of access_order, the other keys
\* keeping their relative order; the order stays sorted by the time of the
\* last touch, and an eviction removes a key only together with every key
\* standing before it, so a key promoted by get outlives the keys not
\* touched since.
C7_GetPromotes ==
    [][/\ (Called("get") /\ op'.key \in DOMAIN cache) =>
             /\ ret' = Some(cache[op'.key].value)
             /\ DOMAIN cache' = DOMAIN cache
             /\ cache'[op'.key].access_count = cache[op'.key].access_count + 1
             /\ cache'[op'.key].timestamp = now
             /\ access_order'[Len(access_order')] = op'.key
             /\ Len(access_order') = Len(access_order)
             /\ SameRelativeOrder(access_order, access_order', DOMAIN cache \ {op'.key})
       /\ (Called("put") /\ op'.key \notin DOMAIN cache) =>
             \A x \in DOMAIN cache \ DOMAIN cache' :
                \A y \in DOMAIN cache :
                   (Before(access_order, y, x)
                      \/ cache[y].timestamp < cache[x].timestamp)
                   => y \notin DOMAIN cache'
       /\ \A i, j \in 1..Len(access_order') :
             i < j => cache'[access_order'[i]].timestamp
                         <= cache'[access_order'[j]].timestamp]_vars

C7_Witness ==
    /\ op.name = "put" /\ op.path = "evict"
    /\ Len(access_order) >= 2
    /\ cache[access_order[1]].access_count > 1

\* C8: get(k) on a key that is not cached returns None and changes neither
\* the entry map, nor any access_count, nor access_order, nor current_size.
C8_GetMissNoEffect ==
    [][(Called("get") /\ op'.key \notin DOMAIN cache) =>
          /\ ret' = None
          /\ cache' = cache
          /\ access_order' = access_order
          /\ current_size' = current_size
          /\ max_size' = max_size]_vars

C8_Witness ==
    /\ op.name = "get" /\ op.path = "miss"
    /\ ret = None
    /\ Len(access_order) >= 2

\* C9: remove(k) on a cached key returns its value, deletes k from the map
\* and from access_order, lowers current_size by that entry's size and
\* leaves the other entries and their relative order unchanged; on an
\* absent key it returns None and changes nothing.
C9_RemoveExact ==
    [][Called("remove") =>
          IF op'.key \in DOMAIN cache
          THEN /\ ret' = Some(cache[op'.key].value)
               /\ DOMAIN cache' = DOMAIN cache \ {op'.key}
               /\ \A x \in DOMAIN cache' : cache'[x] = cache[x]
               /\ Range(access_order') = Range(access_order) \ {op'.key}
               /\ Len(access_order') = Len(access_order) - 1
               /\ SameRelativeOrder(access_order, access_order', DOMAIN cache \ {op'.key})
               /\ current_size' = current_size - cache[op'.key].size
          ELSE /\ ret' = None
               /\ UNCHANGED <<cache, access_order, current_size, max_size>>]_vars

C9_Witness ==
    /\ op.name = "remove" /\ op.path = "hit"
    /\ ret.some
    /\ Len(access_order) >= 2

(* ================= properties of the HTTP response cache ================= *)

\* C10: get_response(url) on an entry with expiry E returns a copy of the
\* entry when now <= E; when now > E it returns None and removes the entry
\* from the underlying cache, current_size dropping by the entry's size;
\* get_response on a URL that is not cached returns None, and a URL enters
\* the cache only by a store_response of it, so the later calls miss until
\* the URL is stored again.
C10_ExpiryOnRead ==
    [][/\ (Called("get_response") /\ op'.key \in DOMAIN cache) =>
             LET url == op'.key
                 entry == cache[url].value
             IN /\ entry.expires.some
                /\ IF now <= entry.expires.val
                   THEN /\ ret' = Some(entry)
                        /\ url \in DOMAIN cache'
                        /\ cache'[url].value = entry
                        /\ current_size' = current_size
                   ELSE /\ ret' = None
                        /\ DOMAIN cache' = DOMAIN cache \ {url}
                        /\ url \notin Range(access_order')
                        /\ current_size' = current_size - cache[url].size
       /\ (Called("get_response") /\ op'.key \notin DOMAIN cache) =>
             /\ ret' = None
             /\ cache' = cache
       /\ \A url \in DOMAIN cache' \ DOMAIN cache :
             Called("store_response") /\ op'.key = url]_vars

C10_Witness ==
    /\ op.name = "get_response" /\ op.path = "expired"
    /\ ret = None
    /\ op.key \notin DOMAIN cache
    /\ DOMAIN cache # {}
    /\ current_size = SumSizes(cache)


\* C11: store_response at time now gives the entry the expiry of the
\* `expires` header when the header is there and is an RFC-2822 date;
\* otherwise now + N when cache-control has a first directive starting with
\* max-age= and what follows it is the unsigned integer N; otherwise
\* now + the default TTL.  A header that does not parse counts as absent,
\* and the call returns Ok.
ExpiresDate(headers) ==
    IF "expires" \in DOMAIN headers THEN parse_from_rfc2822(headers["expires"]) ELSE None

\* the remainder of the first directive that starts with max-age=
MaxAgeRemainder(headers) ==
    IF "cache-control" \notin DOMAIN headers THEN None
    ELSE LET directives == split(headers["cache-control"], ",")
             IsMaxAge(i) == starts_with(trim(directives[i]), "max-age=")
         IN IF \E i \in 1..Len(directives) : IsMaxAge(i)
            THEN LET first == CHOOSE i \in 1..Len(directives) :
                                 IsMaxAge(i) /\ \A j \in 1..(i - 1) : ~IsMaxAge(j)
                     directive == trim(directives[first])
                 IN Some(SubSeq(directive, Len("max-age=") + 1, Len(directive)))
            ELSE None

\* the unsigned integer n is the number x
IsNumber(n, x) == n.top = "" /\ n.low = x

C11_ExpiresPrecedence ==
    [][(Called("store_response") /\ op'.key \notin DOMAIN cache) =>
          LET url == op'.key
              headers == op'.value.headers
              date == ExpiresDate(headers)
              remainder == MaxAgeRemainder(headers)
              max_age == IF remainder.some THEN parse_u64(remainder.val) ELSE None
          IN /\ ret' = Ok
             /\ url \in DOMAIN cache'
             /\ cache'[url].value.expires.some
             /\ LET expires == cache'[url].value.expires.val IN
                IF date.some THEN expires = date.val
                ELSE IF max_age.some THEN IsNumber(max_age.val, expires - now)
                ELSE expires = now + default_ttl]_vars


\* C12: is_cacheable(status, headers) is true exactly when the status is one
\* of 200, 203, 204, 206, 300, 301, 404, 405, 410, 414, 501, the
\* cache-control header (if there) contains neither no-store nor no-cache and
\* the pragma header (if there) does not contain no-cache; it is false for
\* every other status (302 among them) and leaves the cache as it was.
C12_Cacheable ==
    [][Called("is_cacheable") =>
          LET status == op'.value.status_code
              headers == op'.value.headers
          IN /\ ret' = Returned(
                   /\ status \in {200, 203, 204, 206, 300, 301, 404, 405, 410, 414, 501}
                   /\ "cache-control" \in DOMAIN headers =>
                         /\ ~contains(headers["cache-control"], "no-store")
                         /\ ~contains(headers["cache-control"], "no-cache")
                   /\ "pragma" \in DOMAIN headers =>
                         ~contains(headers["pragma"], "no-cache"))
             /\ status = 302 => ret' = Returned(FALSE)
             /\ UNCHANGED <<cache, access_order, max_size, current_size, config>>]_vars

C12_Witness ==
    /\ op.name = "is_cacheable"
    /\ op.value.status_code = 404
    /\ "pragma" \in DOMAIN op.value.headers
    /\ contains(op.value.headers["pragma"], "no-cache")
    /\ ret = Returned(FALSE)
    /\ DOMAIN cache # {}

\* C13: a store_response of a URL that is not cached, returning Ok, leaves an
\* entry with the status code, the content type and the body of the call; an
\* entry keeps its value as long as it is in the cache, and a get_response
\* before the expiry returns it: the body read is the body stored, with or
\* without compression and below or above 1024 bytes.
C13_BodyServedAsStored ==
    [][/\ (Called("store_response") /\ op'.key \notin DOMAIN cache /\ ret' = Ok) =>
             /\ op'.key \in DOMAIN cache'
             /\ LET entry == cache'[op'.key].value IN
                /\ entry.status_code = op'.value.status_code
                /\ entry.content_type = HeaderGet(op'.value.headers, "content-type")
                /\ entry.body = op'.value.body
       /\ \A url \in DOMAIN cache \cap DOMAIN cache' :
             cache'[url].value = cache[url].value
       /\ (/\ Called("get_response") /\ op'.key \in DOMAIN cache
           /\ now <= cache[op'.key].value.expires.val) =>
             /\ ret'.some
             /\ ret'.val.status_code = cache[op'.key].value.status_code
             /\ ret'.val.content_type = cache[op'.key].value.content_type
             /\ ret'.val.body = cache[op'.key].value.body]_vars

C13_Witness ==
    /\ op.name = "get_response" /\ op.path = "hit"
    /\ compression_enabled
    /\ ret.some
    /\ ret.val.body.len > CompressionThreshold
    /\ ret.val.compressed_body = Some(Gzip(ret.val.body))
    /\ ret.val.content_type = None

\* C14: as long as every response stored had a computed size of at most the
\* capacity, the cache holds no more than the capacity, stats reports no
\* more than the capacity, and once the sizes of the responses stored add up
\* to more than the capacity there are fewer live entries than responses
\* stored.
C14_WithinCapacity ==
    stored.largest <= max_size =>
       /\ current_size <= max_size
       /\ op.name = "stats" =>
             /\ ret.returned.memory_usage_mb.num <= max_size
             /\ ret.returned.memory_usage_mb.den = MiB
             /\ ret.returned.entries = Cardinality(DOMAIN cache)
       /\ stored.bytes > max_size => Cardinality(DOMAIN cache) < stored.count

C14_Witness ==
    /\ op.name = "stats"
    /\ stored.count = MaxStores
    /\ stored.largest <= max_size
    /\ stored.bytes > max_size
    /\ ret.returned.entries = 2
    /\ ret.returned.memory_usage_mb.num > 0

\* C15: clear_expired run at time now leaves exactly the entries that were
\* in the cache and have now <= expires: every entry with now > expires is
\* removed, current_size going down by the sizes of the removed entries, and
\* no other entry is removed or changed.
C15_ClearExpired ==
    [][Called("clear_expired") =>
          LET expired == {url \in DOMAIN cache : now > cache[url].value.expires.val}
              kept == DOMAIN cache \ expired
          IN /\ \A url \in DOMAIN cache : cache[url].value.expires.some
             /\ DOMAIN cache' = kept
             /\ Range(access_order') = kept
             /\ \A url \in kept : /\ cache'[url].value = cache[url].value
                                  /\ cache'[url].size = cache[url].size
             /\ current_size' = current_size - SumSizes([url \in expired |-> cache[url]])]_vars

C15_Witness ==
    /\ op.name = "clear_expired" /\ op.path = "removed"
    /\ \E url \in DOMAIN cache : cache[url].value.expires.val = now
    /\ current_size > 0


(* ================= properties of the offline page store ================= *)

\* resource url -> (content type, bytes) of the resources handed to save_page
ResourcesSaved(resources) ==
    [url \in {resources[i].url : i \in 1..Len(resources)} |->
        LET i == CHOOSE i \in 1..Len(resources) : resources[i].url = url IN
        <<resources[i].content_type, resources[i].data>>]

\* the bytes of the resources handed to save_page
RECURSIVE DataSize(_)
DataSize(resources) ==
    IF resources = <<>> THEN 0
    ELSE Head(resources).data.len + DataSize(Tail(resources))

\* C16: a load_page(url) that follows a save_page(url, title, html,
\* resources) which returned Ok, with no call in between, returns a page
\* whose html_content is html and whose resources hold, for every resource
\* saved, the bytes saved, which have the hash recorded in the manifest.
C16_SaveLoadRoundTrip ==
    [][(/\ Called("load_page")
        /\ op.name = "save_page" /\ ret.ok
        /\ op'.key = op.key) =>
          /\ ret'.ok
          /\ ret'.val.some
          /\ ret'.val.val.html_content = op.value.html_content
          /\ ret'.val.val.resources = ResourcesSaved(op.value.resources)
          /\ \A i \in 1..Len(manifests[op.key].resources) :
                LET info == manifests[op.key].resources[i] IN
                info.hash = calculate_hash(ret'.val.val.resources[info.url][2])]_vars

\* C17: the quota pass at the end of save_page ends without error, and
\* leaves current_size <= max_storage_size or no manifest; with the quota
\* of 1 MiB the third of three saves of 500 KiB pages under different URLs
\* returns Ok and leaves the two pages saved last.
C17_QuotaPassCompletes ==
    [][Called("save_page") =>
          /\ ret'.ok
          /\ current_size' <= max_storage_size' \/ manifests' = <<>>
          /\ (/\ Cardinality(DOMAIN manifests) = 2
              /\ op'.key \notin DOMAIN manifests
              /\ \A url \in DOMAIN manifests :
                    SumResourceSizes(manifests[url].resources) = 500 * 1024
              /\ DataSize(op'.value.resources) = 500 * 1024
              /\ Cardinality(Oldest(manifests)) = 1) =>
                DOMAIN manifests' = (DOMAIN manifests \ Oldest(manifests)) \cup {op'.key}]_vars

\* C18: every page that the quota pass of a save_page takes out of the
\* manifest index was saved no later than every page left in the index, and
\* a page is taken out only when the size computed after the save, and the
\* size of the pages left together with a page taken out, is above
\* max_storage_size.
C18_OldestFirst ==
    [][Called("save_page") =>
          LET url == op'.key
              before == DOMAIN manifests \cup {url}
              saved_at(u) == IF u = url THEN now ELSE manifests[u].saved_at
              size(u) == IF u = url
                         THEN DataSize(op'.value.resources)
                         ELSE SumResourceSizes(manifests[u].resources)
              total(pages) == StorageSize([u \in pages |->
                                              [resources |-> <<[size |-> size(u)]>>]])
              removed == before \ DOMAIN manifests'
          IN /\ DOMAIN manifests' \subseteq before
             /\ \A u \in DOMAIN manifests' \ {url} : manifests'[u] = manifests[u]
             /\ \A gone \in removed, left \in DOMAIN manifests' :
                   saved_at(gone) <= manifests'[left].saved_at
             /\ removed # {} =>
                   /\ total(before) > max_storage_size
                   /\ \E gone \in removed :
                         total(DOMAIN manifests' \cup {gone}) > max_storage_size]_vars

C18_Witness ==
    /\ op.name = "save_page"
    /\ Cardinality(DOMAIN manifests) = 2
    /\ op.key \in DOMAIN manifests
    /\ "manifests.json" \in DOMAIN files
    /\ \E gone \in DOMAIN from_str(files["manifests.json"]) \ DOMAIN manifests :
          \A left \in DOMAIN manifests :
             from_str(files["manifests.json"])[gone].saved_at < manifests[left].saved_at

\* C19: after every call on the store, Ok or Err, current_size is the sum
\* over the manifests in the index of the resource sizes plus 10 KiB a page.
C19_SizeMatchesIndex ==
    current_size = StorageSize(manifests)

\* C20: delete_page(url) on a URL with a saved page returns true;
\* afterwards is_page_offline(url) is false, the manifests.json on disk does
\* not list url and current_size is the size of the pages left.
C20_DeleteSavedPage ==
    [][(Called("delete_page") /\ op'.key \in DOMAIN manifests) =>
          /\ ret' = OkOf(TRUE)
          /\ ~OfflineStorage_is_page_offline(
                 Storage(manifests', max_storage_size', current_size', files'), op'.key)
          /\ "manifests.json" \in DOMAIN files'
          /\ op'.key \notin DOMAIN from_str(files'["manifests.json"])
          /\ current_size' = StorageSize(MapRemove(manifests, op'.key))]_vars


(* ================= further properties of the caches ================= *)

\* C27: a put(k, v, s) of an absent key with s above max_size evicts every
\* entry and inserts the entry all the same: afterwards the cache holds the
\* one entry k and current_size = s > max_size; the put is not turned away.
C27_OversizedPutInserted ==
    [][(Called("put") /\ op'.key \notin DOMAIN cache /\ op'.size > max_size) =>
          /\ ret' = None
          /\ DOMAIN cache' = {op'.key}
          /\ cache'[op'.key].value = op'.value
          /\ cache'[op'.key].size = op'.size
          /\ access_order' = <<op'.key>>
          /\ current_size' = op'.size
          /\ current_size' > max_size']_vars

C27_Witness ==
    /\ op.name = "put" /\ op.path = "evict"
    /\ op.size > max_size
    /\ DOMAIN cache = {op.key}
    /\ current_size = op.size

\* C28: after a store_response(url, ...) that returns Ok for a URL that is
\* cached, the cache holds the response just stored under url (status,
\* headers and body of the call, read back by get_response before its
\* expiry) and current_size counts the size of the new entry in place of
\* the old one's.
C28_RestoreReplaces ==
    [][(Called("store_response") /\ op'.key \in DOMAIN cache /\ ret' = Ok) =>
          /\ op'.key \in DOMAIN cache'
          /\ cache'[op'.key].value.status_code = op'.value.status_code
          /\ cache'[op'.key].value.headers = op'.value.headers
          /\ cache'[op'.key].value.body = op'.value.body
          /\ current_size' = SumSizes(cache')
          /\ cache'[op'.key].size = calculate_entry_size(cache'[op'.key].value)]_vars

\* C29: store_response does not ask is_cacheable: a response that
\* is_cacheable turns down (status 302, cache-control: no-store) is stored as
\* any other, and a get_response before its expiry returns it.
C29_StoresUncacheable ==
    [][/\ (/\ Called("store_response") /\ op'.key \notin DOMAIN cache
           /\ ~HTTPCache_is_cacheable(op'.value.status_code, op'.value.headers)) =>
             /\ ret' = Ok
             /\ op'.key \in DOMAIN cache'
             /\ cache'[op'.key].value.status_code = op'.value.status_code
             /\ cache'[op'.key].value.headers = op'.value.headers
             /\ cache'[op'.key].value.body = op'.value.body
       /\ (/\ Called("get_response") /\ op'.key \in DOMAIN cache
           /\ ~HTTPCache_is_cacheable(cache[op'.key].value.status_code,
                                      cache[op'.key].value.headers)
           /\ now <= cache[op'.key].value.expires.val) =>
             ret' = Some(cache[op'.key].value)]_vars

C29_Witness ==
    /\ op.name = "get_response" /\ op.path = "hit"
    /\ ret.some
    /\ ret.val.status_code = 302
    /\ contains(ret.val.headers["cache-control"], "no-store")
    /\ ~HTTPCache_is_cacheable(ret.val.status_code, ret.val.headers)

\* C30: the size that store_response charges for an entry is len(url) +
\* len(body) + the lengths of all header values + the lengths of the
\* content-type, cache-control and etag headers once more (0 where absent);
\* the compressed copy adds nothing, the size being the same with
\* compression on and off.
HeaderLen(headers, name) == IF name \in DOMAIN headers THEN Len(headers[name]) ELSE 0

RECURSIVE HeaderValueLens(_, _)
HeaderValueLens(headers, names) ==
    IF names = {} THEN 0
    ELSE LET name == CHOOSE n \in names : TRUE IN
         Len(headers[name]) + HeaderValueLens(headers, names \ {name})

C30_ChargedSize ==
    [][(Called("store_response") /\ op'.key \notin DOMAIN cache) =>
          LET headers == op'.value.headers IN
          /\ op'.key \in DOMAIN cache'
          /\ cache'[op'.key].size =
                Len(op'.key) + op'.value.body.len
                  + HeaderValueLens(headers, DOMAIN headers)
                  + HeaderLen(headers, "content-type")
                  + HeaderLen(headers, "cache-control")
                  + HeaderLen(headers, "etag")
          /\ current_size' = SumSizes(cache')]_vars

C30_Witness ==
    /\ op.name = "store_response"
    /\ op.key \in DOMAIN cache
    /\ compression_enabled
    /\ cache[op.key].value.compressed_body.some
    /\ cache[op.key].value.etag.some
    /\ cache[op.key].size > cache[op.key].value.body.len


(* ================= further properties of the offline page store ================= *)

\* str::ends_with
ends_with(s, suffix) ==
    Len(s) >= Len(suffix) /\ SubSeq(s, Len(s) - Len(suffix) + 1, Len(s)) = suffix

\* the directories under storage_dir whose manifest.json is the manifest m
DirectoriesOf(f, m) ==
    {SubSeq(path, 1, Len(path) - Len("/manifest.json")) :
        path \in {q \in DOMAIN f : /\ ends_with(q, "/manifest.json")
                                   /\ "json" \in DOMAIN f[q]
                                   /\ from_str(f[q]) = m}}

\* C21: when a saved page leaves the store, by delete_page or by the quota
\* pass of save_page, the directory that save_page made for it is no longer
\* under storage_dir afterwards.
C21_DirectoryRemoved ==
    [][(Called("delete_page") \/ Called("save_page")) =>
          \A url \in DOMAIN manifests \ DOMAIN manifests' :
             DirectoriesOf(files', manifests[url]) = {}]_vars

\* C24: delete_page(url) on a URL without a saved page returns false, no
\* error, and leaves the manifest index, current_size, manifests.json and
\* the page directories as they were.
C24_DeleteAbsent ==
    [][(Called("delete_page") /\ op'.key \notin DOMAIN manifests) =>
          /\ ret' = OkOf(FALSE)
          /\ UNCHANGED <<manifests, current_size, max_storage_size, files>>]_vars

C24_Witness ==
    /\ op.name = "delete_page" /\ op.path = "none"
    /\ ret = OkOf(FALSE)
    /\ DOMAIN manifests # {}
    /\ \E path \in DOMAIN files : ends_with(path, "/index.html")


\* C22: after a save_page or a delete_page has returned, with Ok or with
\* Err, the manifests in memory are those that manifests.json holds.
C22_IndexConsistent ==
    (op.name \in {"save_page", "delete_page"}) =>
       IF "manifests.json" \in DOMAIN files
       THEN /\ IsJson(files["manifests.json"])
            /\ from_str(files["manifests.json"]) = manifests
       ELSE manifests = <<>>

\* C23: a save_page that fails at create_dir_all or at the write of
\* index.html, of a resource file or of manifest.json returns an error and
\* leaves the manifest index and current_size as they were; and when a
\* save_page has put a manifest for url into the index, the page's
\* index.html, resource files and manifest.json are on disk in full.
C23_VisibleWhenWritten ==
    [][Called("save_page") =>
          LET url == op'.key
              page_dir == "page_" \o Uuid(uuids')
          IN /\ op'.path \in {"create_dir_all", "index.html", "css", "manifest.json"} =>
                   /\ ~ret'.ok
                   /\ manifests' = manifests
                   /\ current_size' = current_size
             /\ (/\ url \in DOMAIN manifests'
                 /\ url \in DOMAIN manifests => manifests'[url] # manifests[url]) =>
                   LET manifest == manifests'[url] IN
                   /\ join(page_dir, "index.html") \in DOMAIN files'
                   /\ files'[join(page_dir, "index.html")] = op'.value.html_content
                   /\ Len(manifest.resources) = Len(op'.value.resources)
                   /\ \A i \in 1..Len(manifest.resources) :
                         LET path == join(page_dir, manifest.resources[i].file_path) IN
                         /\ path \in DOMAIN files'
                         /\ files'[path] = op'.value.resources[i].data
                   /\ join(page_dir, "manifest.json") \in DOMAIN files'
                   /\ files'[join(page_dir, "manifest.json")] = to_string_pretty(manifest)]_vars

C23_Witness ==
    /\ op.name = "save_page" /\ op.path = "css"
    /\ ~ret.ok
    /\ op.key \notin DOMAIN manifests
    /\ DOMAIN manifests # {}
    /\ \E path \in DOMAIN files :
          /\ starts_with(path, join("page_" \o Uuid(uuids), ""))
          /\ ends_with(path, ".css")
          /\ files[path].len = 0

\* C25: load_page(url) returns Ok(None) exactly when url has no manifest;
\* when url has one and index.html or a resource file of the manifest is
\* not there to read it returns an error, not None and not a page with
\* fewer resources; when all are there it returns the whole page; the store
\* is left as it was.
C25_LoadPage ==
    [][Called("load_page") =>
          LET url == op'.key IN
          /\ UNCHANGED <<manifests, current_size, max_storage_size, files>>
          /\ ret' = OkOf(None) <=> url \notin DOMAIN manifests
          /\ url \in DOMAIN manifests =>
                LET manifest == manifests[url]
                    page_dir == "page_" \o Md5(manifest.url)
                    html_path == join(page_dir, "index.html")
                    file(i) == join(page_dir, manifest.resources[i].file_path)
                    all == 1..Len(manifest.resources)
                IN IF html_path \in DOMAIN files /\ \A i \in all : file(i) \in DOMAIN files
                   THEN /\ ret'.ok /\ ret'.val.some
                        /\ ret'.val.val.html_content = files[html_path]
                        /\ DOMAIN ret'.val.val.resources =
                              {manifest.resources[i].url : i \in all}
                        /\ \A i \in all :
                              ret'.val.val.resources[manifest.resources[i].url] =
                                 <<manifest.resources[i].content_type, files[file(i)]>>
                   ELSE ~ret'.ok /\ ret'.err = "NotFound"]_vars

C25_Witness ==
    /\ op.name = "load_page" /\ op.path = "manifest"
    /\ ~ret.ok
    /\ op.key \in DOMAIN manifests
    /\ join("page_" \o Md5(op.key), "index.html") \in DOMAIN files

\* C26: constructed over a directory whose manifests.json is no JSON, the
\* store comes up with an empty manifest index and current_size 0;
\* construction does not return an error.
C26_MalformedIndexTolerated ==
    (/\ op.name = "new"
     /\ "manifests.json" \in DOMAIN files
     /\ ~IsJson(files["manifests.json"])) =>
       /\ ret.ok
       /\ manifests = <<>>
       /\ current_size = 0


(* ================= properties of the queries and sweeps ================= *)

\* the variables, the name of the call made last in front: a step changes
\* them exactly when it changes vars
calls == <<op.name, vars>>

\* C31: keys_lru_first returns the recency order, least-recently-used key
\* first; keys_mru_last returns the keys in access order, most-recently-used
\* key last; both return every live key exactly once and neither changes
\* the cache.
C31_KeyOrders ==
    [][(Called("keys_lru_first") \/ Called("keys_mru_last")) =>
          LET keys == ret'.returned IN
          /\ UNCHANGED <<cache, access_order, max_size, current_size>>
          /\ Range(keys) = DOMAIN cache
          /\ Len(keys) = Cardinality(DOMAIN cache)
          /\ Called("keys_lru_first") =>
                \A x, y \in DOMAIN cache : Before(access_order, x, y) => Before(keys, x, y)
          /\ Called("keys_mru_last") =>
                /\ keys # <<>> => keys[Len(keys)] = access_order[Len(access_order)]
                /\ \A x, y \in DOMAIN cache :
                      Before(access_order, x, y) => Before(keys, x, y)]_calls

\* C32: every put returns: the eviction loop never meets a head of the
\* recency list that has no entry in the map, and a put of an absent key
\* has taken as many keys from the map as from the recency list.
C32_PutTerminates ==
    [][Called("put") =>
          /\ ret' # Diverges
          /\ op'.path # "replace" =>
                Cardinality(DOMAIN cache \ DOMAIN cache')
                   = Len(access_order) + 1 - Len(access_order')]_calls

C32_Witness ==
    /\ op.name = "put" /\ op.path = "evict"
    /\ ret = None
    /\ Cardinality(DOMAIN cache) = 2
    /\ current_size = max_size

\* C35: contains_key, stats, keys_lru_first and keys_mru_last change nothing
\* of the cache (contains_key does not promote the key); get changes neither
\* the set of keys nor the size or value of an entry nor current_size.
C35_QueriesReadOnly ==
    [][/\ (\/ Called("contains_key") \/ Called("stats")
           \/ Called("keys_lru_first") \/ Called("keys_mru_last")) =>
             UNCHANGED <<cache, access_order, max_size, current_size>>
       /\ Called("get") =>
             /\ DOMAIN cache' = DOMAIN cache
             /\ \A key \in DOMAIN cache : /\ cache'[key].value = cache[key].value
                                          /\ cache'[key].size = cache[key].size
             /\ current_size' = current_size
             /\ max_size' = max_size]_vars

C35_Witness ==
    /\ op.name = "contains_key" /\ ret = Returned(TRUE)
    /\ Len(access_order) = 2
    /\ access_order[1] = op.key
    /\ cache[op.key].access_count = 2


\* C33: HTTPCache::stats changes neither the recency order of the cache nor
\* the access_count of an entry, so the entry the next store_response would
\* evict first is the same after the call.
C33_StatsReadOnly ==
    [][Called("stats") =>
          /\ access_order' = access_order
          /\ DOMAIN cache' = DOMAIN cache
          /\ \A url \in DOMAIN cache :
                cache'[url].access_count = cache[url].access_count]_vars

\* C34: clear_expired leaves the entries that survive in the relative
\* recency order they had before the sweep; the surviving entry that is
\* evicted next is the same.
C34_SweepKeepsOrder ==
    [][Called("clear_expired") =>
          /\ SameRelativeOrder(access_order, access_order', DOMAIN cache')
          /\ Len(access_order') = Cardinality(DOMAIN cache')
          /\ access_order' # <<>> =>
                \A url \in DOMAIN cache' :
                   url = Head(access_order') \/ Before(access_order, Head(access_order'), url)]_calls

C34_Witness ==
    /\ op.name = "clear_expired" /\ op.path = "removed"
    /\ Len(access_order) = 2
    /\ \A url \in DOMAIN cache : cache[url].access_count = 2

\* C36: every entry in the HTTP cache has an expiry, and from the second
\* after it on get_response removes the entry instead of returning it.
C36_EveryEntryExpires ==
    \A url \in DOMAIN cache :
       LET entry == cache[url].value IN
       /\ entry.expires.some
       /\ \A later \in 1..3 :
             LET r == HTTPCache_get_response(Self, url, entry.expires.val + later) IN
             /\ r.ret = None
             /\ url \notin DOMAIN r.self.cache

C36_Witness ==
    \E url \in DOMAIN cache :
       LET entry == cache[url].value IN
       /\ "expires" \notin DOMAIN entry.headers
       /\ entry.cache_control = Some("no-store")
       /\ default_ttl = 60
       /\ entry.expires = Some(cache[url].timestamp + 60)
       /\ cache[url].timestamp = 1


(* ================= properties of the saved pages ================= *)

\* the ResourceInfo list save_page builds for the resources handed to it
ExpectedInfos(resources) ==
    [i \in 1..Len(resources) |->
        ResourceInfo(resources[i].url, resources[i].content_type,
                     generate_filename(resources[i].url, resources[i].content_type),
                     resources[i].data.len, calculate_hash(resources[i].data))]

\* C37: when save_page(url, ...) returns Ok(page_id) the page is resident:
\* url is in the manifest index and its manifest is the one built by this
\* call; the quota pass has not evicted the page just saved.
C37_SavedPageResident ==
    [][(Called("save_page") /\ ret'.ok) =>
          LET url == op'.key IN
          /\ ret'.val = "page_" \o Uuid(uuids')
          /\ OfflineStorage_is_page_offline(SelfOffline', url)
          /\ manifests'[url] = OfflineManifest(url, op'.value.title, now,
                                               ExpectedInfos(op'.value.resources),
                                               calculate_hash(op'.value.html_content))]_calls

C37_Witness ==
    /\ op.name = "save_page" /\ ret.ok
    /\ Cardinality(DOMAIN manifests) = 2
    /\ current_size + PageOverhead > max_storage_size
    /\ \E url \in DOMAIN manifests : manifests[url].saved_at < manifests[op.key].saved_at

\* a store constructed now over storage_dir has the manifests and the
\* current_size of this one
Persisted ==
    LET r == OfflineStorage_new(files, QuotaMiB) IN
    /\ r.ok
    /\ r.val.manifests = manifests
    /\ r.val.current_size = current_size

\* C38: the manifest index survives a restart: from construction on, every
\* successful save_page, delete_page and clear_all leaves the store such that
\* a new OfflineStorage over the same directory has the same URLs with the
\* same manifests and the same current_size.
C38_SurvivesRestart ==
    /\ Persisted
    /\ [][(/\ Persisted
           /\ Called("save_page") \/ Called("delete_page") \/ Called("clear_all")
           /\ ret'.ok) => Persisted']_calls

C38_Witness ==
    /\ op.name = "new" /\ ret.ok
    /\ Cardinality(DOMAIN manifests) = 2
    /\ current_size = StorageSize(manifests)
    /\ Persisted

\* the page directories under storage_dir
PageDirectories(f) == {split(path, "/")[1] : path \in {q \in DOMAIN f : contains(q, "/")}}

\* C39: after save_page, delete_page and clear_all there are as many page
\* directories under storage_dir as manifests in the index; a second save of
\* a URL leaves no directory of the first save behind.
C39_NoOrphanDirectories ==
    op.name \in {"save_page", "delete_page", "clear_all"} =>
       Cardinality(PageDirectories(files)) = Cardinality(DOMAIN manifests)

====
